---- MODULE Spec2Model ----
(***************************************************************************)
(* TruckedUpFood: the vendor operational-status controller (GoLiveButton), *)
(* the vendor onboarding submit that creates the vendor_status row, and    *)
(* the proximity ranking of the search page (fetchVendors).                *)
(*                                                                         *)
(* The data store is modelled as tables (sets / sequences of rows).  Every *)
(* store call is two steps: the store serves the request (applies it or    *)
(* fails it), and later the awaiting handler resumes with the response.    *)
(* A nullable column or state value is a set with at most one element.     *)
(***************************************************************************)
EXTENDS Integers, Sequences, FiniteSets, TLC

\* ---------------------------------------------------------------- bounds
NumSessions == 2        \* GoLiveButton instances mounted for the vendor
MaxLocations == 2       \* capacity of the locations table
MaxTime == 1            \* distinct values of new Date().toISOString()
MaxVendors == 3         \* approved vendors the search page loads
MaxInstances == 3       \* LocationSearch instances the page renders

Sessions == 1..NumSessions
Timestamps == 1..MaxTime
Instances == 1..MaxInstances

\* ------------------------------------------------------------ value sets
VendorOperationalStatus == {"offline", "live", "closing_soon"}

None == {}
Some(x) == {x}
IsNull(o) == o = {}
TheValue(o) == CHOOSE x \in o : TRUE

vendorId == "v1"

\* what the position sensor can report (position.coords)
GpsPositions == {[latitude |-> 39, longitude |-> -86]}

\* what the address search can hand to onLocationSelect
SelectedLocations ==
    {[address |-> "1 Main St", latitude |-> 40, longitude |-> -85,
      city |-> "Indianapolis", state |-> "IN", zip |-> "46204"]}

VARIABLES
    \* the store
    vendorRow,          \* whether the vendors row of vendorId exists
    vendor_status,      \* table vendor_status: the rows of vendorId
    locations,          \* table locations: sequence of rows, id = position
    onboarding,         \* position of the onboarding handleSubmit
    \* GoLiveButton, one per session
    status, loading, showLocationInput, useManualLocation,
    selectedLocation,
    fetch,              \* the fetchStatus issued on mount
    inflight,           \* the awaited calls of the session's transitions
    lastAlert,          \* the alert(message) the session's latest step showed
    \* the search page
    userLocation,       \* the origin fetchVendors(userLat, userLng) is given
    vendorsData,        \* what the vendors query returns, in its order
    statusData,         \* what the vendor_status query returns
    locationData,       \* the locations rows the statuses refer to
    locationErrors,     \* ids of the locations rows whose read fails
    vendors,            \* useState<VendorWithLocation[]>([])
    searchLoading,      \* useState(true) of SearchPage
    selectedCuisines,   \* useState<string[]>([])
    showLiveOnly,       \* useState(false)
    \* LocationSearch: the module's globals on the page of session Host, and
    \* the instances that page renders
    apiKey,             \* whether NEXT_PUBLIC_GOOGLE_MAPS_API_KEY is set
    google,             \* whether window.google.maps.places is defined
    isScriptLoaded, isScriptLoading,
    scriptCallbacks,    \* the queued callbacks, each named by its instance
    scripts,            \* the script elements appended to document.head
    instance,           \* unmounted | mounted | gone, per instance
    isReady,            \* useState(false), per instance
    autocompleteRef,    \* whether autocompleteRef.current is set, per instance
    callbackRuns        \* how often the instance's queued callback has run

storeVars == <<vendorRow, vendor_status, locations, onboarding>>
viewVars == <<status, loading, showLocationInput,
              useManualLocation, selectedLocation, fetch>>
uiVars == <<viewVars, inflight, lastAlert>>
searchVars == <<userLocation, vendorsData, statusData, locationData,
                locationErrors, vendors, searchLoading, selectedCuisines,
                showLiveOnly>>
loaderVars == <<apiKey, google, isScriptLoaded, isScriptLoading,
                scriptCallbacks, scripts, instance, isReady, autocompleteRef,
                callbackRuns>>
vars == <<storeVars, uiVars, searchVars, loaderVars>>

\* ------------------------------------------------------------- the store
\* An awaited call of a transition.  kind: gps | insert | golive | update;
\* phase: req (issued), ok (applied by the store, response not yet consumed).
\* A call the store fails changes nothing in the store, so its failure is one
\* step with the handler's resumption.
Call(kind, phase, newStatus, latitude, longitude, place, location_id) ==
    [kind |-> kind, phase |-> phase, newStatus |-> newStatus,
     latitude |-> latitude, longitude |-> longitude, place |-> place,
     location_id |-> location_id]

\* the optional address parts of createLocationAndGoLive, all undefined
NoPlace == [address |-> "", city |-> "", state |-> "", zip |-> ""]

\* supabase .update(updates).eq('vendor_id', id): every matching row gets the
\* columns of updates; no matching row is not an error.
UpdateRows(table, id, updates) ==
    {IF r.vendor_id = id
        THEN [c \in DOMAIN r |-> IF c \in DOMAIN updates THEN updates[c] ELSE r[c]]
        ELSE r : r \in table}

\* the row handleSubmit inserts; went_live_at and current_location_id are not
\* given and default to null
OnboardingStatusRow(id) ==
    [vendor_id |-> id, is_live |-> FALSE, operational_status |-> "offline",
     went_live_at |-> None, current_location_id |-> None]

\* GoLiveUpdates referencing an id that is not the inserted row's
GoLiveUpdates_WrongId(t, location_id) ==
    [operational_status |-> "live", went_live_at |-> Some(t),
     current_location_id |-> Some(0)]

\* the updates object of createLocationAndGoLive
GoLiveUpdates(t, location_id) ==
    [operational_status |-> "live", went_live_at |-> Some(t),
     current_location_id |-> Some(location_id)]

\* StatusUpdates clearing the location whatever the new status is
StatusUpdates_AlwaysClears(newStatus) ==
    [operational_status |-> newStatus, current_location_id |-> None,
     went_live_at |-> None]

\* the updates object of updateStatus
StatusUpdates(newStatus) ==
    IF newStatus = "offline"
    THEN [operational_status |-> newStatus, current_location_id |-> None,
          went_live_at |-> None]
    ELSE [operational_status |-> newStatus]

\* the row createLocationAndGoLive inserts
LocationRow(id, c) ==
    [id |-> id, vendor_id |-> vendorId, latitude |-> c.latitude,
     longitude |-> c.longitude, address |-> c.place.address,
     city |-> c.place.city, state |-> c.place.state, zip |-> c.place.zip,
     is_current_location |-> TRUE]

\* the search page before its data is loaded
SearchIdle ==
    /\ userLocation = None
    /\ vendorsData = <<>>
    /\ statusData = {}
    /\ locationData = {}
    /\ locationErrors = {}
    /\ vendors = <<>>
    /\ searchLoading = TRUE
    /\ selectedCuisines = <<>>
    /\ showLiveOnly = FALSE

\* the module's globals as it is loaded, and no instance rendered yet
LoaderIdle(keys) ==
    /\ apiKey \in keys
    /\ google = FALSE
    /\ isScriptLoaded = FALSE
    /\ isScriptLoading = FALSE
    /\ scriptCallbacks = <<>>
    /\ scripts = <<>>
    /\ instance = [i \in Instances |-> "unmounted"]
    /\ isReady = [i \in Instances |-> FALSE]
    /\ autocompleteRef = [i \in Instances |-> FALSE]
    /\ callbackRuns = [i \in Instances |-> 0]

ControllerInit ==
    /\ vendorRow = FALSE
    /\ vendor_status = {}
    /\ locations = <<>>
    /\ onboarding = "form"
    /\ status = [s \in Sessions |-> "offline"]
    /\ loading = [s \in Sessions |-> FALSE]
    /\ showLocationInput = [s \in Sessions |-> FALSE]
    /\ useManualLocation = [s \in Sessions |-> FALSE]
    /\ selectedLocation = [s \in Sessions |-> None]
    /\ fetch = [s \in Sessions |-> [phase |-> "req", data |-> None]]
    /\ inflight = [s \in Sessions |-> {}]
    /\ lastAlert = [s \in Sessions |-> ""]

Init == ControllerInit /\ SearchIdle /\ LoaderIdle({TRUE})

\* ------------------------------------------------------------ onboarding
\* handleSubmit, vendors insert: the vendors row of vendorId is created or
\* the insert fails and the form stays
SubmitInsertVendor ==
    /\ onboarding = "form"
    /\ ~vendorRow
    /\ \/ vendorRow' = TRUE /\ onboarding' = "status"
       \/ UNCHANGED <<vendorRow, onboarding>>
    /\ UNCHANGED <<vendor_status, locations, uiVars, loaderVars, searchVars>>

\* handleSubmit, vendor_status insert: on failure the vendors row stays
\* without a vendor_status row (nothing is rolled back)
SubmitInsertStatus ==
    /\ onboarding = "status"
    /\ \/ vendor_status' = vendor_status \cup {OnboardingStatusRow(vendorId)}
       \/ UNCHANGED vendor_status
    /\ onboarding' = "done"
    /\ UNCHANGED <<loaderVars, searchVars, vendorRow, locations, uiVars>>

\* ---------------------------------------------------------- GoLiveButton
\* the dashboard renders GoLiveButton once it has read the vendors row; the
\* vendor gets to the dashboard when handleSubmit has finished
Mounted(s) == vendorRow /\ onboarding = "done"

\* window.alert blocks the session until it is dismissed: an alert is the
\* output of the step that shows it and is gone at the session's next step
alert(s, message) == lastAlert' = [lastAlert EXCEPT ![s] = message]

NoAlert(s) == alert(s, "")

Pending(s, kind, phase) == {c \in inflight[s] : c.kind = kind /\ c.phase = phase}

\* the store serves the fetchStatus issued by the mount effect: .single()
\* gives the row's operational_status
FetchStatusServe(s) ==
    /\ Mounted(s)
    /\ fetch[s].phase = "req"
    /\ \E r \in vendor_status :
         /\ r.vendor_id = vendorId
         /\ fetch' = [fetch EXCEPT ![s] =
                [phase |-> "resp", data |-> Some(r.operational_status)]]
    /\ UNCHANGED <<loaderVars, searchVars, storeVars, status, loading, showLocationInput,
                   useManualLocation, selectedLocation, inflight, lastAlert>>

\* fetchStatus resumes: if (data && !error) setStatus(data.operational_status).
\* From "req" the store has failed the read (no row, store unreachable):
\* data is null and status is left alone.
FetchStatusReturn(s) ==
    /\ Mounted(s)
    /\ fetch[s].phase \in {"req", "resp"}
    /\ fetch' = [fetch EXCEPT ![s] = [phase |-> "done", data |-> None]]
    /\ status' = [status EXCEPT ![s] =
            IF IsNull(fetch[s].data) THEN @ ELSE TheValue(fetch[s].data)]
    /\ NoAlert(s)
    /\ UNCHANGED <<loaderVars, searchVars, storeVars, loading, showLocationInput,
                   useManualLocation, selectedLocation, inflight>>

\* the body of updateStatus up to its await: setLoading(true), the update issued
UpdateStatusBegin(s, newStatus) ==
    /\ loading' = [loading EXCEPT ![s] = TRUE]
    /\ inflight' = [inflight EXCEPT ![s] =
            @ \cup {Call("update", "req", newStatus, 0, 0, NoPlace, None)}]

\* handleStatusChange on a status button that loading does not disable
handleStatusChange_NotDisabled(s) ==
    /\ Mounted(s)
    /\ ~showLocationInput[s]
    /\ CASE status[s] = "offline" ->
              /\ showLocationInput' = [showLocationInput EXCEPT ![s] = TRUE]
              /\ UNCHANGED <<loading, inflight>>
         [] status[s] = "live" ->
              /\ UpdateStatusBegin(s, "closing_soon")
              /\ UNCHANGED showLocationInput
         [] status[s] = "closing_soon" ->
              /\ UpdateStatusBegin(s, "offline")
              /\ UNCHANGED showLocationInput
    /\ NoAlert(s)
    /\ UNCHANGED <<loaderVars, searchVars, storeVars, status, useManualLocation,
                   selectedLocation, fetch>>

\* the status button (disabled={loading}) of the main view
handleStatusChange(s) ==
    /\ Mounted(s)
    /\ ~showLocationInput[s]
    /\ ~loading[s]
    /\ CASE status[s] = "offline" ->
              /\ showLocationInput' = [showLocationInput EXCEPT ![s] = TRUE]
              /\ UNCHANGED <<loading, inflight>>
         [] status[s] = "live" ->
              /\ UpdateStatusBegin(s, "closing_soon")
              /\ UNCHANGED showLocationInput
         [] status[s] = "closing_soon" ->
              /\ UpdateStatusBegin(s, "offline")
              /\ UNCHANGED showLocationInput
    /\ NoAlert(s)
    /\ UNCHANGED <<loaderVars, searchVars, storeVars, status, useManualLocation,
                   selectedLocation, fetch>>

\* the store serves updateStatus's vendor_status update
UpdateStatusServe(s) ==
    \E c \in Pending(s, "update", "req") :
        /\ vendor_status' =
              UpdateRows(vendor_status, vendorId, StatusUpdates(c.newStatus))
        /\ inflight' = [inflight EXCEPT ![s] =
              (@ \ {c}) \cup {[c EXCEPT !.phase = "ok"]}]
        /\ UNCHANGED <<loaderVars, searchVars, vendorRow, locations, onboarding, viewVars,
                       lastAlert>>

\* the continuation of updateStatus after its await.  From "ok":
\* setStatus(newStatus) and the alert of the new status.  From "req" the store
\* has failed the update: if (error) throw, caught.
AfterStatusUpdate(s, c) ==
    IF c.phase = "ok"
    THEN /\ status' = [status EXCEPT ![s] = c.newStatus]
         /\ alert(s, IF c.newStatus = "closing_soon"
                     THEN "Status updated to Closing Soon"
                     ELSE "You are now offline")
    ELSE /\ UNCHANGED status
         /\ alert(s, "Failed to update status")

\* updateStatus resumes; finally setLoading(false)
UpdateStatusReturn(s) ==
    \E c \in Pending(s, "update", "ok") \cup Pending(s, "update", "req") :
        /\ AfterStatusUpdate(s, c)
        /\ loading' = [loading EXCEPT ![s] = FALSE]
        /\ inflight' = [inflight EXCEPT ![s] = @ \ {c}]
        /\ UNCHANGED <<loaderVars, searchVars, storeVars, showLocationInput,
                       useManualLocation, selectedLocation, fetch>>

\* "Use My Current GPS Location" (disabled={loading}) of the GPS panel; the
\* browser may lack navigator.geolocation
goLiveWithGPS(s) ==
    /\ Mounted(s)
    /\ showLocationInput[s]
    /\ ~useManualLocation[s]
    /\ ~loading[s]
    /\ \E geolocation \in BOOLEAN :
         IF ~geolocation
         THEN /\ alert(s, "Geolocation is not supported")
              /\ useManualLocation' = [useManualLocation EXCEPT ![s] = TRUE]
              /\ loading' = [loading EXCEPT ![s] = FALSE]
              /\ UNCHANGED inflight
         ELSE /\ loading' = [loading EXCEPT ![s] = TRUE]
              /\ inflight' = [inflight EXCEPT ![s] =
                      @ \cup {Call("gps", "req", "", 0, 0, NoPlace, None)}]
              /\ NoAlert(s)
              /\ UNCHANGED useManualLocation
    /\ UNCHANGED <<loaderVars, searchVars, storeVars, status, showLocationInput,
                   selectedLocation, fetch>>

\* GeolocationError without its setLoading(false)
GeolocationError_KeepsLoading(s) ==
    \E c \in Pending(s, "gps", "req") :
        /\ alert(s, "Could not get your location")
        /\ useManualLocation' = [useManualLocation EXCEPT ![s] = TRUE]
        /\ inflight' = [inflight EXCEPT ![s] = @ \ {c}]
        /\ UNCHANGED <<loaderVars, searchVars, storeVars, status, loading, showLocationInput,
                       selectedLocation, fetch>>

\* GeolocationError leaving the sensor read pending, to be answered again
GeolocationError_Retries(s) ==
    \E c \in Pending(s, "gps", "req") :
        /\ alert(s, "Could not get your location")
        /\ useManualLocation' = [useManualLocation EXCEPT ![s] = TRUE]
        /\ loading' = [loading EXCEPT ![s] = FALSE]
        /\ UNCHANGED <<loaderVars, searchVars, storeVars, status, showLocationInput,
                       selectedLocation, fetch, inflight>>

\* getCurrentPosition's error callback
GeolocationError(s) ==
    \E c \in Pending(s, "gps", "req") :
        /\ alert(s, "Could not get your location")
        /\ useManualLocation' = [useManualLocation EXCEPT ![s] = TRUE]
        /\ loading' = [loading EXCEPT ![s] = FALSE]
        /\ inflight' = [inflight EXCEPT ![s] = @ \ {c}]
        /\ UNCHANGED <<loaderVars, searchVars, storeVars, status, showLocationInput,
                       selectedLocation, fetch>>

\* getCurrentPosition's success callback: createLocationAndGoLive(latitude,
\* longitude) up to its first await, the locations insert issued
GeolocationSuccess(s) ==
    \E c \in Pending(s, "gps", "req"), p \in GpsPositions :
        /\ inflight' = [inflight EXCEPT ![s] =
                (@ \ {c}) \cup
                {Call("insert", "req", "", p.latitude, p.longitude, NoPlace, None)}]
        /\ NoAlert(s)
        /\ UNCHANGED <<loaderVars, searchVars, storeVars, status, loading, showLocationInput,
                       useManualLocation, selectedLocation, fetch>>

\* "Go Live at This Location" (disabled={loading || !selectedLocation}):
\* setLoading(true), createLocationAndGoLive(selectedLocation...) up to its
\* first await
goLiveWithSearchedLocation(s) ==
    /\ Mounted(s)
    /\ showLocationInput[s]
    /\ useManualLocation[s]
    /\ ~loading[s]
    /\ ~IsNull(selectedLocation[s])
    /\ loading' = [loading EXCEPT ![s] = TRUE]
    /\ LET l == TheValue(selectedLocation[s]) IN
         inflight' = [inflight EXCEPT ![s] =
            @ \cup {Call("insert", "req", "", l.latitude, l.longitude,
                         [address |-> l.address, city |-> l.city,
                          state |-> l.state, zip |-> l.zip],
                         None)}]
    /\ NoAlert(s)
    /\ UNCHANGED <<loaderVars, searchVars, storeVars, status, showLocationInput,
                   useManualLocation, selectedLocation, fetch>>

\* LocationInsertServe writing over the newest locations row, if there is one
LocationInsertServe_Overwrites(s) ==
    \E c \in Pending(s, "insert", "req") :
        /\ Len(locations) < MaxLocations
        /\ LET id == IF locations = <<>> THEN 1 ELSE Len(locations) IN
             /\ locations' = [i \in 1..id |->
                    IF i = id THEN LocationRow(id, c) ELSE locations[i]]
             /\ inflight' = [inflight EXCEPT ![s] = (@ \ {c}) \cup
                  {[c EXCEPT !.phase = "ok", !.location_id = Some(id)]}]
        /\ UNCHANGED <<loaderVars, searchVars, vendorRow, vendor_status, onboarding, viewVars,
                       lastAlert>>

\* the store serves the locations insert of createLocationAndGoLive:
\* .insert(row).select().single() returns the new row with its id
LocationInsertServe(s) ==
    \E c \in Pending(s, "insert", "req") :
        /\ Len(locations) < MaxLocations
        /\ LET id == Len(locations) + 1 IN
             /\ locations' = Append(locations, LocationRow(id, c))
             /\ inflight' = [inflight EXCEPT ![s] = (@ \ {c}) \cup
                  {[c EXCEPT !.phase = "ok", !.location_id = Some(id)]}]
        /\ UNCHANGED <<loaderVars, searchVars, vendorRow, vendor_status, onboarding, viewVars,
                       lastAlert>>

\* AfterLocationInsert without "if (locationError) throw": the status update
\* is issued whatever the insert returned
AfterLocationInsert_NoErrorCheck(s, c) ==
    /\ inflight' = [inflight EXCEPT ![s] = (@ \ {c}) \cup
           {[c EXCEPT !.kind = "golive", !.phase = "req",
                      !.location_id = IF c.phase = "req" THEN Some(0) ELSE @]}]
    /\ NoAlert(s)
    /\ UNCHANGED loading

\* AfterLocationInsert whose failure path skips "finally setLoading(false)"
AfterLocationInsert_NoFinally(s, c) ==
    IF c.phase = "req"
    THEN /\ alert(s, "Failed to go live")
         /\ inflight' = [inflight EXCEPT ![s] = @ \ {c}]
         /\ UNCHANGED loading
    ELSE /\ inflight' = [inflight EXCEPT ![s] = (@ \ {c}) \cup
                {[c EXCEPT !.kind = "golive", !.phase = "req"]}]
         /\ NoAlert(s)
         /\ UNCHANGED loading

\* the continuation of createLocationAndGoLive after the insert.  From "req"
\* the store has failed the insert: if (locationError) throw, caught (alert),
\* finally setLoading(false).  From "ok" the vendor_status update referencing
\* location.id is issued.
AfterLocationInsert(s, c) ==
    IF c.phase = "req"
    THEN /\ alert(s, "Failed to go live")
         /\ loading' = [loading EXCEPT ![s] = FALSE]
         /\ inflight' = [inflight EXCEPT ![s] = @ \ {c}]
    ELSE /\ inflight' = [inflight EXCEPT ![s] = (@ \ {c}) \cup
                {[c EXCEPT !.kind = "golive", !.phase = "req"]}]
         /\ NoAlert(s)
         /\ UNCHANGED loading

LocationInsertReturn(s) ==
    \E c \in Pending(s, "insert", "ok") \cup Pending(s, "insert", "req") :
        /\ AfterLocationInsert(s, c)
        /\ UNCHANGED <<loaderVars, searchVars, storeVars, status, showLocationInput,
                       useManualLocation, selectedLocation, fetch>>

\* the store serves the vendor_status update of createLocationAndGoLive
GoLiveUpdateServe(s) ==
    \E c \in Pending(s, "golive", "req") :
        /\ \E t \in Timestamps :
              vendor_status' = UpdateRows(vendor_status, vendorId,
                  GoLiveUpdates(t, TheValue(c.location_id)))
        /\ inflight' = [inflight EXCEPT ![s] =
              (@ \ {c}) \cup {[c EXCEPT !.phase = "ok"]}]
        /\ UNCHANGED <<loaderVars, searchVars, vendorRow, locations, onboarding, viewVars,
                       lastAlert>>

\* the continuation of createLocationAndGoLive after the update.  From "ok":
\* setStatus('live'), the panel is reset, alert.  From "req" the store has
\* failed the update: if (statusError) throw, caught (alert).
AfterGoLiveUpdate(s, c) ==
    IF c.phase = "ok"
    THEN /\ status' = [status EXCEPT ![s] = "live"]
         /\ showLocationInput' = [showLocationInput EXCEPT ![s] = FALSE]
         /\ useManualLocation' = [useManualLocation EXCEPT ![s] = FALSE]
         /\ selectedLocation' = [selectedLocation EXCEPT ![s] = None]
         /\ alert(s, "You are now live")
    ELSE /\ UNCHANGED <<status, showLocationInput, useManualLocation,
                        selectedLocation>>
         /\ alert(s, "Failed to go live")

\* createLocationAndGoLive resumes; finally setLoading(false)
GoLiveUpdateReturn(s) ==
    \E c \in Pending(s, "golive", "ok") \cup Pending(s, "golive", "req") :
        /\ AfterGoLiveUpdate(s, c)
        /\ loading' = [loading EXCEPT ![s] = FALSE]
        /\ inflight' = [inflight EXCEPT ![s] = @ \ {c}]
        /\ UNCHANGED <<loaderVars, searchVars, storeVars, fetch>>

\* "Search for Location": setUseManualLocation(true)
SearchForLocation(s) ==
    /\ Mounted(s)
    /\ showLocationInput[s]
    /\ ~useManualLocation[s]
    /\ useManualLocation' = [useManualLocation EXCEPT ![s] = TRUE]
    /\ NoAlert(s)
    /\ UNCHANGED <<loaderVars, searchVars, storeVars, status, loading, showLocationInput,
                   selectedLocation, fetch, inflight>>

\* "Cancel": setShowLocationInput(false)
Cancel(s) ==
    /\ Mounted(s)
    /\ showLocationInput[s]
    /\ ~useManualLocation[s]
    /\ showLocationInput' = [showLocationInput EXCEPT ![s] = FALSE]
    /\ NoAlert(s)
    /\ UNCHANGED <<loaderVars, searchVars, storeVars, status, loading, useManualLocation,
                   selectedLocation, fetch, inflight>>

\* "Back to GPS": setUseManualLocation(false); setSelectedLocation(null)
BackToGPS(s) ==
    /\ Mounted(s)
    /\ showLocationInput[s]
    /\ useManualLocation[s]
    /\ useManualLocation' = [useManualLocation EXCEPT ![s] = FALSE]
    /\ selectedLocation' = [selectedLocation EXCEPT ![s] = None]
    /\ NoAlert(s)
    /\ UNCHANGED <<loaderVars, searchVars, storeVars, status, loading, showLocationInput,
                   fetch, inflight>>

\* LocationSearch calls onLocationSelect={setSelectedLocation} with a place
\* that has a coordinate
onLocationSelect(s) ==
    /\ Mounted(s)
    /\ showLocationInput[s]
    /\ useManualLocation[s]
    /\ \E l \in SelectedLocations :
         selectedLocation' = [selectedLocation EXCEPT ![s] = Some(l)]
    /\ NoAlert(s)
    /\ UNCHANGED <<loaderVars, searchVars, storeVars, status, loading, showLocationInput,
                   useManualLocation, fetch, inflight>>

Next ==
    \/ SubmitInsertVendor
    \/ SubmitInsertStatus
    \/ \E s \in Sessions :
          \/ FetchStatusServe(s)
          \/ FetchStatusReturn(s)
          \/ handleStatusChange(s)
          \/ UpdateStatusServe(s)
          \/ UpdateStatusReturn(s)
          \/ goLiveWithGPS(s)
          \/ GeolocationError(s)
          \/ GeolocationSuccess(s)
          \/ goLiveWithSearchedLocation(s)
          \/ LocationInsertServe(s)
          \/ LocationInsertReturn(s)
          \/ GoLiveUpdateServe(s)
          \/ GoLiveUpdateReturn(s)
          \/ SearchForLocation(s)
          \/ Cancel(s)
          \/ BackToGPS(s)
          \/ onLocationSelect(s)

Spec == Init /\ [][Next]_vars

\* ------------------------------------------- status controller: claims
LegalEdges ==
    {<<"offline", "live">>, <<"live", "closing_soon">>, <<"closing_soon", "offline">>}

\* the step in which a store write of session s's transition fails
LocationInsertFails(s) ==
    LocationInsertReturn(s) /\ Pending(s, "insert", "req") # {}

GoLiveUpdateFails(s) ==
    GoLiveUpdateReturn(s) /\ Pending(s, "golive", "req") # {}

UpdateStatusFails(s) ==
    UpdateStatusReturn(s) /\ Pending(s, "update", "req") # {}

\* C1: every step that changes the vendor's vendor_status row changes its
\* operational_status along offline->live, live->closing_soon or
\* closing_soon->offline; a write for any other edge leaves the row unchanged.
C1_OnlyLegalEdges ==
    [][\A r \in vendor_status : \A r2 \in vendor_status' :
          (r.vendor_id = r2.vendor_id /\ r2 # r) =>
             <<r.operational_status, r2.operational_status>> \in LegalEdges]_vars

\* C2: in every vendor_status row current_location_id is non-null iff the
\* status is live or closing_soon, and so is went_live_at.
C2_LocationIffLive ==
    \A r \in vendor_status :
        /\ ~IsNull(r.current_location_id) <=>
              r.operational_status \in {"live", "closing_soon"}
        /\ ~IsNull(r.went_live_at) <=>
              r.operational_status \in {"live", "closing_soon"}

\* C3: in the store state the go-live update of createLocationAndGoLive
\* produces, the vendor has a stored current_location_id and went_live_at and
\* both are non-null; in the store state the update of
\* updateStatus('offline') produces, both are null.
C3_TransitionPostcondition ==
    [][\A s \in Sessions :
          /\ GoLiveUpdateServe(s) =>
                \E r \in vendor_status' :
                    /\ r.vendor_id = vendorId
                    /\ ~IsNull(r.current_location_id)
                    /\ ~IsNull(r.went_live_at)
          /\ (UpdateStatusServe(s) /\
              \E c \in Pending(s, "update", "req") : c.newStatus = "offline") =>
                \A r \in vendor_status' :
                    r.vendor_id = vendorId =>
                        /\ IsNull(r.current_location_id)
                        /\ IsNull(r.went_live_at)]_vars

\* C4: the vendor_status update of a go-live is issued only with the id of a
\* locations row that exists, so a non-null current_location_id always
\* refers to an existing locations row.
C4_CurrentLocationExists ==
    /\ \A r \in vendor_status :
          ~IsNull(r.current_location_id) =>
             \E i \in 1..Len(locations) :
                locations[i].id = TheValue(r.current_location_id)
    /\ \A s \in Sessions : \A c \in inflight[s] :
          c.kind = "golive" =>
             /\ ~IsNull(c.location_id)
             /\ \E i \in 1..Len(locations) :
                   locations[i].id = TheValue(c.location_id)

\* a status row refers to the second location row inserted
C4_Witness ==
    \E r \in vendor_status :
        /\ ~IsNull(r.current_location_id)
        /\ Len(locations) = 2
        /\ locations[2].id = TheValue(r.current_location_id)

\* C5: a go-live request that gets no coordinate (no navigator.geolocation,
\* or the sensor's error callback) inserts no locations row, leaves
\* vendor_status unchanged, issues no store write, clears loading and turns
\* to manual entry; and the manual go-live starts only with a selected
\* location.
C5_LocationUnavailable ==
    [][\A s \in Sessions :
          /\ (GeolocationError(s) \/ (goLiveWithGPS(s) /\ inflight'[s] = inflight[s])) =>
                /\ locations' = locations
                /\ vendor_status' = vendor_status
                /\ inflight'[s] = {}
                /\ ~loading'[s]
                /\ useManualLocation'[s]
                /\ lastAlert'[s] \in {"Could not get your location",
                                      "Geolocation is not supported"}
          /\ goLiveWithSearchedLocation(s) => ~IsNull(selectedLocation[s])]_vars

\* the sensor read of a go-live has failed: nothing selected, nothing stored
C5_Witness ==
    \E s \in Sessions :
        /\ lastAlert[s] = "Could not get your location"
        /\ IsNull(selectedLocation[s])
        /\ useManualLocation[s]
        /\ ~loading[s]
        /\ locations = <<>>

\* C6: the step in which a store write of a transition fails leaves the
\* vendor_status table as it is, as does the locations insert that came
\* before a failing update, and after a failed locations insert the session
\* has no vendor_status update in flight.
C6_FailedWriteLeavesStatus ==
    [][\A s \in Sessions :
          /\ LocationInsertFails(s) =>
                /\ vendor_status' = vendor_status
                /\ inflight'[s] = {}
          /\ LocationInsertServe(s) => vendor_status' = vendor_status
          /\ GoLiveUpdateFails(s) => vendor_status' = vendor_status
          /\ UpdateStatusFails(s) => vendor_status' = vendor_status]_vars

\* a go-live has failed in a store write while the vendor was stored live
C6_Witness ==
    \E s \in Sessions :
        /\ lastAlert[s] = "Failed to go live"
        /\ inflight[s] = {}
        /\ \E r \in vendor_status : r.operational_status = "live"

\* C7: after a failed store write of a transition the status the session
\* displays is the stored operational_status, and the failure is alerted.
C7_DisplayedIsPersisted ==
    [][\A s \in Sessions :
          (LocationInsertFails(s) \/ GoLiveUpdateFails(s) \/ UpdateStatusFails(s)) =>
             /\ \A r \in vendor_status' :
                   r.vendor_id = vendorId => status'[s] = r.operational_status
             /\ lastAlert'[s] \in {"Failed to go live", "Failed to update status"}]_vars

\* the step in which session s's fetchStatus gets an error from the store
FetchStatusFails(s) == FetchStatusReturn(s) /\ fetch[s].phase = "req"

\* the go-live request of session s finds no navigator.geolocation
GeolocationUnsupported(s) == goLiveWithGPS(s) /\ inflight'[s] = inflight[s]

\* the calls of a kind session s awaits
Awaited(calls, kind) == {c \in calls : c.kind = kind}

\* C17: when the sensor read fails or the sensor is unsupported, the session
\* turns to manual entry in that step with no sensor read and no store call
\* left pending and the store unchanged; a sensor read is started only by the
\* "Use My Current GPS Location" button, which manual entry does not show.
C17_SensorFallback ==
    [][\A s \in Sessions :
          /\ (GeolocationError(s) \/ GeolocationUnsupported(s)) =>
                /\ useManualLocation'[s]
                /\ inflight'[s] = {}
                /\ UNCHANGED <<vendorRow, vendor_status, locations>>
          /\ Awaited(inflight'[s], "gps") \ Awaited(inflight[s], "gps") # {} =>
                goLiveWithGPS(s) /\ ~useManualLocation[s]]_vars

\* the browser has no sensor: the session is in manual entry, nothing pending
C17_Witness ==
    \E s \in Sessions :
        /\ lastAlert[s] = "Geolocation is not supported"
        /\ useManualLocation[s]
        /\ showLocationInput[s]
        /\ ~loading[s]
        /\ inflight[s] = {}

\* C18: the store write of updateStatus('closing_soon') changes
\* operational_status alone in the vendor's row and inserts no locations row.
C18_ClosingSoonFrame ==
    [][\A s \in Sessions :
          (UpdateStatusServe(s) /\
           \E c \in Pending(s, "update", "req") : c.newStatus = "closing_soon") =>
              /\ locations' = locations
              /\ vendor_status' =
                    {[r EXCEPT !.operational_status = "closing_soon"] :
                        r \in vendor_status}]_vars

\* a live vendor has just been stored closing_soon, its location kept
C18_Witness ==
    \E s \in Sessions :
        /\ \E c \in Pending(s, "update", "ok") : c.newStatus = "closing_soon"
        /\ status[s] = "live"
        /\ \E r \in vendor_status :
              /\ r.operational_status = "closing_soon"
              /\ ~IsNull(r.current_location_id)
              /\ ~IsNull(r.went_live_at)

\* C19: every step keeps the existing locations rows as they are; a served
\* locations insert adds exactly one row; the go-live update stores the id of
\* the row its own invocation inserted, never the id already stored.
C19_LocationsAppendOnly ==
    [][/\ Len(locations') >= Len(locations)
       /\ SubSeq(locations', 1, Len(locations)) = locations
       /\ \A s \in Sessions :
             /\ LocationInsertServe(s) =>
                   /\ Len(locations') = Len(locations) + 1
                   /\ locations'[Len(locations')].id = Len(locations')
             /\ GoLiveUpdateServe(s) =>
                   /\ locations' = locations
                   /\ \A c \in Pending(s, "golive", "req") :
                      \A r \in vendor_status :
                         r.current_location_id # c.location_id
             /\ \A s2 \in Sessions \ {s} :
                   \A c \in Awaited(inflight'[s], "golive") :
                   \A c2 \in Awaited(inflight'[s2], "golive") :
                      c.location_id # c2.location_id]_vars

\* the vendor has gone live a second time: the first row is as it was
\* inserted and the status refers to the second
C19_Witness ==
    /\ Len(locations) = 2
    /\ locations[1].id = 1 /\ locations[1].is_current_location
    /\ locations[2].id = 2
    /\ \E r \in vendor_status : r.current_location_id = Some(2)
    /\ \E s \in Sessions : lastAlert[s] = "You are now live"

\* C20: once onboarding's handleSubmit has finished with the vendors row
\* inserted, the vendor has exactly one vendor_status row.
C20_OneStatusRow ==
    (vendorRow /\ onboarding = "done") =>
        Cardinality({r \in vendor_status : r.vendor_id = vendorId}) = 1

\* C21: a locations row that no pending go-live of a session is about to
\* reference is marked is_current_location only if the vendor's
\* vendor_status row refers to it.
C21_OnlyCurrentMarked ==
    \A i \in 1..Len(locations) :
        (/\ locations[i].is_current_location
         /\ \A s \in Sessions : \A c \in inflight[s] :
               c.location_id # Some(locations[i].id)) =>
            \E r \in vendor_status :
                /\ r.vendor_id = locations[i].vendor_id
                /\ r.current_location_id = Some(locations[i].id)

\* C30: in every vendor_status row is_live is true iff operational_status is
\* live or closing_soon.
C30_IsLiveAgrees ==
    \A r \in vendor_status :
        r.is_live <=> r.operational_status \in {"live", "closing_soon"}

\* session s starts a go-live write: the locations insert is issued
GoLiveWriteIssued(s) ==
    Awaited(inflight'[s], "insert") \ Awaited(inflight[s], "insert") # {}

\* C23: the status button opens the location panel and issues no call when
\* the displayed status is offline, issues the update to closing_soon when
\* it is live and the update to offline when it is closing_soon; and a
\* go-live write is issued or served only while the displayed status is
\* offline.
C23_LegalSuccessorRequested ==
    [][\A s \in Sessions :
          /\ handleStatusChange(s) =>
                /\ status[s] = "offline" =>
                      /\ showLocationInput'[s]
                      /\ inflight'[s] = inflight[s]
                      /\ UNCHANGED <<vendorRow, vendor_status, locations>>
                /\ status[s] = "live" =>
                      inflight'[s] = {Call("update", "req", "closing_soon",
                                           0, 0, NoPlace, None)}
                /\ status[s] = "closing_soon" =>
                      inflight'[s] = {Call("update", "req", "offline",
                                           0, 0, NoPlace, None)}
          /\ (GoLiveWriteIssued(s) \/ LocationInsertServe(s) \/ GoLiveUpdateServe(s))
                => status[s] = "offline"]_vars

\* C24: a session awaits at most one call of a transition, and loading is
\* true while it awaits one; a transition is started only while loading is
\* false.
C24_OneTransitionInFlight ==
    [][\A s \in Sessions :
          /\ Cardinality(inflight'[s]) <= 1
          /\ inflight'[s] # {} => loading'[s]
          /\ (inflight[s] = {} /\ inflight'[s] # {}) => ~loading[s]]_vars

\* a session awaits the store's answer to its closing_soon update while the
\* other session awaits its sensor read
C24_Witness ==
    \E s, s2 \in Sessions :
        /\ s # s2
        /\ \E c \in Pending(s, "update", "req") : c.newStatus = "closing_soon"
        /\ Pending(s2, "gps", "req") # {}
        /\ loading[s] /\ loading[s2]

\* C25: the steps of a go-live attempt (the sensor's answer, the locations
\* insert, the status update) are taken only while the location panel of
\* the session is open, so none is taken after Cancel has closed it.
C25_CancelAbandons ==
    [][\A s \in Sessions :
          (GeolocationSuccess(s) \/ LocationInsertServe(s) \/ GoLiveUpdateServe(s))
             => showLocationInput[s]]_vars

\* whether a session's loading flag is cleared does not depend on what
\* another session does: the session whose progress is examined
LiveSessions == {1}

\* every external call eventually returns: the sensor calls one of its
\* callbacks, and the store answers each insert and update (the awaiting
\* handler resumes with the row or with the error)
ExternalCallsReturn ==
    \A s \in LiveSessions :
        /\ WF_vars(GeolocationError(s) \/ GeolocationSuccess(s))
        /\ WF_vars(LocationInsertReturn(s))
        /\ WF_vars(GoLiveUpdateReturn(s))
        /\ WF_vars(UpdateStatusReturn(s))

\* the steps of the vendor's first GoLiveButton acting alone
LiveNext ==
    \/ SubmitInsertVendor
    \/ SubmitInsertStatus
    \/ \E s \in LiveSessions :
          \/ FetchStatusServe(s)
          \/ FetchStatusReturn(s)
          \/ handleStatusChange(s)
          \/ UpdateStatusServe(s)
          \/ UpdateStatusReturn(s)
          \/ goLiveWithGPS(s)
          \/ GeolocationError(s)
          \/ GeolocationSuccess(s)
          \/ goLiveWithSearchedLocation(s)
          \/ LocationInsertServe(s)
          \/ LocationInsertReturn(s)
          \/ GoLiveUpdateServe(s)
          \/ GoLiveUpdateReturn(s)
          \/ SearchForLocation(s)
          \/ Cancel(s)
          \/ BackToGPS(s)
          \/ onLocationSelect(s)

SpecLive == Init /\ [][LiveNext]_vars /\ ExternalCallsReturn

\* C26: when every external call eventually returns, a session whose
\* loading flag is true eventually has it false.
C26_LoadingEventuallyFalse ==
    \A s \in LiveSessions : loading[s] ~> ~loading[s]

\* a go-live has ended in a failed store write and the controls are enabled
C26_Witness ==
    \E s \in Sessions :
        /\ lastAlert[s] = "Failed to go live"
        /\ ~loading[s]
        /\ showLocationInput[s]
        /\ Len(locations) = 1

\* ----------------------------------------------------------- search page
\* the latitudes and the longitude the modelled coordinates lie on, in whole
\* degrees
Latitudes == 39..41
Longitude == -86

\* A JavaScript number x is modelled in fixed point, as the integer nearest
\* to x * Scale; every operation rounds its exact result to the nearest
\* representable value, as IEEE 754 arithmetic does.
Scale == 10000

\* the result of Math.sqrt on a negative number, and of every operation on it;
\* it is the one value outside the non-negative results of Math.sqrt,
\* Math.atan2 and calculateDistance
NaN == -1

\* n / d rounded to the nearest integer, for d > 0
Round(n, d) ==
    IF n >= 0 THEN (2 * n + d) \div (2 * d)
    ELSE -((2 * (-n) + d) \div (2 * d))

\* x * y of two numbers
Mul(x, y) == Round(x * y, Scale)

\* a === b of two numbers: NaN equals nothing, itself included
NumEq(a, b) == a # NaN /\ b # NaN /\ a = b

\* Math.PI
PI == 31416

\* toRad(degrees), of a whole number of degrees
toRad(degrees) == Round(degrees * PI, 180)

\* the sum of the alternating power series that starts with term and takes
\* each next term as -term * x2 / (k * (k + 1))
RECURSIVE Series(_, _, _)
Series(term, x2, k) ==
    IF term = 0 THEN 0
    ELSE term + Series(-Round(term * x2, Scale * k * (k + 1)), x2, k + 2)

\* Math.sin(x) and Math.cos(x), for x between -PI and PI
Sin(x) == Series(x, Mul(x, x), 2)
Cos(x) == Series(Scale, Mul(x, x), 1)

\* the least r in lo..hi with r * r >= x
RECURSIVE SqrtSearch(_, _, _)
SqrtSearch(x, lo, hi) ==
    IF lo >= hi THEN lo
    ELSE LET mid == (lo + hi) \div 2
         IN IF mid * mid >= x THEN SqrtSearch(x, lo, mid)
            ELSE SqrtSearch(x, mid + 1, hi)

\* Math.sqrt(x), of an x that carries the factor Scale twice (a product of
\* two numbers that was not rounded): the nearest number to the root, and NaN
\* for a negative x
Sqrt(x) ==
    IF x < 0 THEN NaN
    ELSE LET r == SqrtSearch(x, 0, 2 * Scale)
         IN IF r > 0 /\ x - (r - 1) * (r - 1) < r * r - x THEN r - 1 ELSE r

\* the least angle t in lo..hi with sin(t) * x >= cos(t) * y
RECURSIVE Atan2Search(_, _, _, _)
Atan2Search(y, x, lo, hi) ==
    IF lo >= hi THEN lo
    ELSE LET mid == (lo + hi) \div 2
         IN IF Sin(mid) * x >= Cos(mid) * y THEN Atan2Search(y, x, lo, mid)
            ELSE Atan2Search(y, x, mid + 1, hi)

\* Math.atan2(y, x) for y >= 0 and x >= 0, as the two roots are: the angle
\* between 0 and PI / 2 whose tangent is y / x, and NaN if y or x is NaN.
\* The angle is searched between the bounds t - t^3 / 3 and t of the
\* arctangent of a tangent t <= 1 (of x / y, for the complement, if y > x).
atan2(y, x) ==
    LET HalfPi == toRad(90)
        Cube(t) == Round(Mul(Mul(t, t), t), 3)
        AtLeast(lo) == IF lo < 0 THEN 0 ELSE lo
        AtMost(hi) == IF hi > HalfPi THEN HalfPi ELSE hi
    IN IF y = NaN \/ x = NaN THEN NaN
       ELSE IF x = 0 /\ y = 0 THEN 0
       ELSE IF y <= x
       THEN LET t == Round(y * Scale, x)
            IN Atan2Search(y, x, AtLeast(t - Cube(t) - 2), AtMost(t + 2))
       ELSE LET t == Round(x * Scale, y)
            IN Atan2Search(y, x, AtLeast(HalfPi - t - 2),
                           AtMost(HalfPi - t + Cube(t) + 2))

\* Earth's radius in miles
R == 3959

\* calculateDistance: the Haversine formula.  a carries the factor Scale
\* twice: the last multiplication of each of its two products is left
\* unrounded.  The result is in miles, times Scale.
calculateDistance(lat1, lon1, lat2, lon2) ==
    LET dLat == toRad(lat2 - lat1)
        dLon == toRad(lon2 - lon1)
        sinLat == Sin(Round(dLat, 2))
        sinLon == Sin(Round(dLon, 2))
        a == sinLat * sinLat +
             Mul(Mul(Cos(toRad(lat1)), Cos(toRad(lat2))), sinLon) * sinLon
        c == atan2(Sqrt(a), Sqrt(Scale * Scale - a))
    IN IF c = NaN THEN NaN ELSE R * (2 * c)

\* the loop of fetchVendors: a vendor without a status row is skipped; a
\* vendor whose status has a current_location_id gets the location and the
\* distance if the locations row could be read
VendorWithLocation(vendor, st, origin) ==
    LET readable == IF IsNull(st.current_location_id) THEN {}
                    ELSE {l \in locationData :
                            /\ l.id = TheValue(st.current_location_id)
                            /\ l.id \notin locationErrors}
    IN [id |-> vendor.id,
        cuisine_types |-> vendor.cuisine_types,
        operational_status |-> st.operational_status,
        location |-> {[latitude |-> l.latitude, longitude |-> l.longitude] :
                        l \in readable},
        distance_miles |-> {calculateDistance(origin.lat, origin.lng,
                                              l.latitude, l.longitude) :
                              l \in readable}]

\* BuildVendorsWithLocation skipping a vendor that gets no distance
RECURSIVE BuildVendorsWithLocation_SkipUnlocated(_, _)
BuildVendorsWithLocation_SkipUnlocated(data, origin) ==
    IF data = <<>> THEN <<>>
    ELSE LET vendor == Head(data)
             rest == BuildVendorsWithLocation_SkipUnlocated(Tail(data), origin)
             rows == {st \in statusData : st.vendor_id = vendor.id}
             v == VendorWithLocation(vendor, CHOOSE st \in rows : TRUE, origin)
         IN IF rows = {} \/ IsNull(v.distance_miles) THEN rest
            ELSE <<v>> \o rest

RECURSIVE BuildVendorsWithLocation(_, _)
BuildVendorsWithLocation(data, origin) ==
    IF data = <<>> THEN <<>>
    ELSE LET vendor == Head(data)
             rest == BuildVendorsWithLocation(Tail(data), origin)
             rows == {st \in statusData : st.vendor_id = vendor.id}
         IN IF rows = {} THEN rest
            ELSE <<VendorWithLocation(vendor, CHOOSE st \in rows : TRUE, origin)>>
                 \o rest

\* SortCompare without the liveness priority: by distance alone
SortCompare_DistanceOnly(a, b) ==
    IF IsNull(a.distance_miles) /\ IsNull(b.distance_miles) THEN 0
    ELSE IF IsNull(a.distance_miles) THEN 1
    ELSE IF IsNull(b.distance_miles) THEN -1
    ELSE TheValue(a.distance_miles) - TheValue(b.distance_miles)

\* SortCompare with "?? 0" for "?? Infinity": a missing distance counts as 0
SortCompare_MissingIsZero(a, b) ==
    LET aIsLive == a.operational_status # "offline"
        bIsLive == b.operational_status # "offline"
        aDist == IF IsNull(a.distance_miles) THEN 0 ELSE TheValue(a.distance_miles)
        bDist == IF IsNull(b.distance_miles) THEN 0 ELSE TheValue(b.distance_miles)
    IN IF aIsLive /\ ~bIsLive THEN -1
       ELSE IF ~aIsLive /\ bIsLive THEN 1
       ELSE aDist - bDist

\* SortCompare returning 1 as soon as a has no distance: two vendors without
\* a distance each compare greater than the other
SortCompare_MissingFirstChecked(a, b) ==
    LET aIsLive == a.operational_status # "offline"
        bIsLive == b.operational_status # "offline"
    IN IF aIsLive /\ ~bIsLive THEN -1
       ELSE IF ~aIsLive /\ bIsLive THEN 1
       ELSE IF IsNull(a.distance_miles) THEN 1
       ELSE IF IsNull(b.distance_miles) THEN -1
       ELSE TheValue(a.distance_miles) - TheValue(b.distance_miles)

\* the comparator of fetchVendors' sort, as Array.prototype.sort uses it: the
\* sign of its result, a NaN result (Infinity - Infinity, or a NaN distance)
\* counting as +0
SortCompare(a, b) ==
    LET aIsLive == a.operational_status # "offline"
        bIsLive == b.operational_status # "offline"
    IN IF aIsLive /\ ~bIsLive THEN -1
       ELSE IF ~aIsLive /\ bIsLive THEN 1
       ELSE IF IsNull(a.distance_miles) /\ IsNull(b.distance_miles) THEN 0
       ELSE IF IsNull(a.distance_miles) THEN 1
       ELSE IF IsNull(b.distance_miles) THEN -1
       ELSE IF NaN \in a.distance_miles \cup b.distance_miles THEN 0
       ELSE TheValue(a.distance_miles) - TheValue(b.distance_miles)

\* Array.prototype.sort is stable: an element moves in front of the elements
\* that compare greater than it, and of no other
RECURSIVE InsertSorted(_, _)
InsertSorted(sorted, x) ==
    IF sorted = <<>> THEN <<x>>
    ELSE IF SortCompare(sorted[Len(sorted)], x) > 0
         THEN Append(InsertSorted(SubSeq(sorted, 1, Len(sorted) - 1), x),
                     sorted[Len(sorted)])
         ELSE Append(sorted, x)

RECURSIVE ArraySort(_)
ArraySort(array) ==
    IF array = <<>> THEN <<>>
    ELSE InsertSorted(ArraySort(SubSeq(array, 1, Len(array) - 1)),
                      array[Len(array)])

\* the array fetchVendors sorts
vendorsWithLocation == BuildVendorsWithLocation(vendorsData, TheValue(userLocation))

\* fetchVendors(userLat, userLng): if the vendors query or the vendor_status
\* query fails the error is caught and vendors is left alone; otherwise
\* setVendors(sorted).  finally setLoading(false).
fetchVendors ==
    /\ searchLoading
    /\ ~IsNull(userLocation)
    /\ \E queriesFail \in BOOLEAN :
         vendors' = IF queriesFail THEN vendors ELSE ArraySort(vendorsWithLocation)
    /\ searchLoading' = FALSE
    /\ UNCHANGED <<loaderVars, storeVars, uiVars, userLocation, vendorsData, statusData,
                   locationData, locationErrors, selectedCuisines, showLiveOnly>>

\* what the search page can load: up to MaxVendors approved vendors, each
\* with or without a status row; a status row has any operational_status and
\* a current_location_id or none (the columns are independent in
\* VendorStatus); every referenced location has a row, whose read may fail
SearchInputs ==
    /\ userLocation \in {Some([lat |-> 39, lng |-> Longitude])}
    /\ \E n \in 0..MaxVendors :
         /\ vendorsData = [i \in 1..n |-> [id |-> i, cuisine_types |-> <<>>]]
         /\ \E withStatus \in SUBSET (1..n) :
            \E st \in [withStatus -> VendorOperationalStatus] :
            \E located \in SUBSET withStatus :
            \E lat \in [located -> Latitudes] :
              /\ statusData =
                   {[vendor_id |-> i, operational_status |-> st[i],
                     current_location_id |->
                        IF i \in located THEN Some(i) ELSE None] :
                      i \in withStatus}
              /\ locationData =
                   {[id |-> i, latitude |-> lat[i], longitude |-> Longitude] :
                      i \in located}
              /\ locationErrors \in SUBSET located
    /\ vendors = <<>>
    /\ searchLoading = TRUE
    /\ selectedCuisines = <<>>
    /\ showLiveOnly = FALSE

RankInit == ControllerInit /\ SearchInputs /\ LoaderIdle({TRUE})

RankNext == fetchVendors

SpecRank == RankInit /\ [][RankNext]_vars

\* ------------------------------------------------------- ranking: claims
IsLive(v) == v.operational_status # "offline"

\* C8: in the list fetchVendors stores, no offline vendor comes before a live
\* or closing_soon vendor.
C8_LiveBeforeOffline ==
    \A i, j \in 1..Len(vendors) :
        i < j => ~(~IsLive(vendors[i]) /\ IsLive(vendors[j]))

\* a live vendor two degrees away is ranked before an offline vendor at the
\* origin that preceded it in the input
C8_Witness ==
    /\ ~searchLoading
    /\ \E i, j \in 1..Len(vendors) :
          /\ i < j
          /\ IsLive(vendors[i])
          /\ vendors[i].distance_miles =
                Some(calculateDistance(39, Longitude, 41, Longitude))
          /\ ~IsLive(vendors[j]) /\ vendors[j].distance_miles = Some(0)
          /\ vendors[j].id < vendors[i].id

C10_StableOrder ==
    ~searchLoading =>
        /\ (vendors # <<>> =>
              /\ Len(vendors) = Len(vendorsWithLocation)
              /\ {vendors[i] : i \in 1..Len(vendors)} =
                 {vendorsWithLocation[i] : i \in 1..Len(vendorsWithLocation)})
        /\ \A i, j \in 1..Len(vendors) :
              (/\ i < j
               /\ IsLive(vendors[i]) = IsLive(vendors[j])
               /\ vendors[i].distance_miles = vendors[j].distance_miles)
                 => vendors[i].id < vendors[j].id

\* two vendors without a distance and two with equal distances keep their
\* order behind a vendor that overtook them
C10_Witness ==
    /\ ~searchLoading
    /\ Len(vendors) = 3
    /\ vendors[1].id = 3
    /\ vendors[2].id = 1 /\ vendors[3].id = 2
    /\ IsLive(vendors[2]) = IsLive(vendors[3])
    /\ IsNull(vendors[2].distance_miles) /\ IsNull(vendors[3].distance_miles)

\* ------------------------------------------------------ distance: claim
\* coordinates in whole degrees: two points of the northern hemisphere a
\* degree of longitude apart, and points of the other hemisphere that include
\* an antipode
DistanceLatitudes == {-12, 12, 40}
DistanceLongitudes == {-86, -85, 94}

\* the search page with a user location and one live vendor, each at any of
\* the coordinates
DistanceInputs ==
    /\ userLocation \in {Some([lat |-> la, lng |-> lo]) :
                           la \in DistanceLatitudes, lo \in DistanceLongitudes}
    /\ vendorsData = <<[id |-> 1, cuisine_types |-> <<>>]>>
    /\ statusData = {[vendor_id |-> 1, operational_status |-> "live",
                      current_location_id |-> Some(1)]}
    /\ \E la \in DistanceLatitudes, lo \in DistanceLongitudes :
         locationData = {[id |-> 1, latitude |-> la, longitude |-> lo]}
    /\ locationErrors = {}
    /\ vendors = <<>>
    /\ searchLoading = TRUE
    /\ selectedCuisines = <<>>
    /\ showLiveOnly = FALSE

DistanceInit == ControllerInit /\ DistanceInputs /\ LoaderIdle({TRUE})

DistanceNext == fetchVendors

SpecDistance == DistanceInit /\ [][DistanceNext]_vars

\* C22: the distance fetchVendors computed from the user's location a to a
\* vendor's location b, calculateDistance(a, b), equals
\* calculateDistance(b, a), and it is 0 if a and b are the same point.
C22_SymmetricAndZero ==
    \A i \in 1..Len(vendors) :
    \A b \in vendors[i].location :
        LET a == TheValue(userLocation)
            distance == TheValue(vendors[i].distance_miles)
        IN /\ NumEq(distance, calculateDistance(b.latitude, b.longitude,
                                                a.lat, a.lng))
           /\ (b.latitude = a.lat /\ b.longitude = a.lng) => NumEq(distance, 0)

\* ------------------------------------------------ search page: the filters
\* the cuisine buttons the modelled page offers, two of cuisineOptions
cuisineOptions == {"Mexican", "Italian"}

\* the cuisine_types a loaded vendor can have
CuisineTypes == {<<"Mexican", "BBQ">>, <<"Italian">>, <<>>}

\* Array.prototype.includes
includes(array, x) == \E i \in 1..Len(array) : array[i] = x

\* hasMatchingCuisine with "every" for "some"
hasMatchingCuisine_Every(vendor) ==
    \A i \in 1..Len(vendor.cuisine_types) :
        includes(selectedCuisines, vendor.cuisine_types[i])

\* vendor.cuisine_types.some(type => selectedCuisines.includes(type))
hasMatchingCuisine(vendor) ==
    \E i \in 1..Len(vendor.cuisine_types) :
        includes(selectedCuisines, vendor.cuisine_types[i])

\* FilterPredicate whose live-only test keeps the status 'live' alone
FilterPredicate_LiveStatusOnly(vendor) ==
    IF showLiveOnly /\ vendor.operational_status # "live" THEN FALSE
    ELSE IF Len(selectedCuisines) > 0 /\ ~hasMatchingCuisine(vendor) THEN FALSE
    ELSE TRUE

\* the callback of vendors.filter
FilterPredicate(vendor) ==
    IF showLiveOnly /\ vendor.operational_status = "offline" THEN FALSE
    ELSE IF Len(selectedCuisines) > 0 /\ ~hasMatchingCuisine(vendor) THEN FALSE
    ELSE TRUE

\* ArrayFilter collecting the kept elements in front of the earlier ones
RECURSIVE ArrayFilter_Reversed(_)
ArrayFilter_Reversed(array) ==
    IF array = <<>> THEN <<>>
    ELSE ArrayFilter_Reversed(Tail(array)) \o
         (IF FilterPredicate(Head(array)) THEN <<Head(array)>> ELSE <<>>)

\* Array.prototype.filter: a new array of the elements the callback keeps, in
\* their order
RECURSIVE ArrayFilter(_)
ArrayFilter(array) ==
    IF array = <<>> THEN <<>>
    ELSE (IF FilterPredicate(Head(array)) THEN <<Head(array)>> ELSE <<>>) \o
         ArrayFilter(Tail(array))

\* const filteredVendors = vendors.filter(...), computed at every render
filteredVendors == ArrayFilter(vendors)

\* the "Show Live Trucks Only" checkbox: setShowLiveOnly(e.target.checked)
setShowLiveOnly ==
    /\ showLiveOnly' = ~showLiveOnly
    /\ UNCHANGED <<loaderVars, storeVars, uiVars, userLocation, vendorsData, statusData,
                   locationData, locationErrors, vendors, searchLoading,
                   selectedCuisines>>

\* a cuisine button
toggleCuisine ==
    /\ \E cuisine \in cuisineOptions :
         selectedCuisines' =
            IF includes(selectedCuisines, cuisine)
            THEN SelectSeq(selectedCuisines, LAMBDA c : c # cuisine)
            ELSE Append(selectedCuisines, cuisine)
    /\ UNCHANGED <<loaderVars, storeVars, uiVars, userLocation, vendorsData, statusData,
                   locationData, locationErrors, vendors, searchLoading,
                   showLiveOnly>>

\* what the search page can load when the filters are used: up to MaxVendors
\* approved vendors with their cuisine_types, each with or without a status
\* row; vendor i's truck, if it has a current location, is 3 - i degrees north
\* of the origin, so the nearest vendor is the last one loaded
FilterInputs ==
    /\ userLocation \in {Some([lat |-> 39, lng |-> Longitude])}
    /\ \E n \in 0..MaxVendors :
       \E tags \in [1..n -> CuisineTypes] :
       \E withStatus \in SUBSET (1..n) :
       \E st \in [withStatus -> VendorOperationalStatus] :
       \E located \in SUBSET withStatus :
         /\ vendorsData = [i \in 1..n |-> [id |-> i, cuisine_types |-> tags[i]]]
         /\ statusData =
              {[vendor_id |-> i, operational_status |-> st[i],
                current_location_id |->
                   IF i \in located THEN Some(i) ELSE None] :
                 i \in withStatus}
         /\ locationData =
              {[id |-> i, latitude |-> 42 - i, longitude |-> Longitude] :
                 i \in located}
    /\ locationErrors = {}
    /\ vendors = <<>>
    /\ searchLoading = TRUE
    /\ selectedCuisines = <<>>
    /\ showLiveOnly = FALSE

FilterInit == ControllerInit /\ FilterInputs /\ LoaderIdle({TRUE})

FilterNext ==
    \/ fetchVendors
    \/ setShowLiveOnly
    \/ toggleCuisine

SpecFilter == FilterInit /\ [][FilterNext]_vars

\* ------------------------------------------------------- filters: claims
Elements(array) == {array[i] : i \in 1..Len(array)}

\* the vendor's cuisine tag set intersects the selected tag set, or nothing
\* is selected
CuisineKept(v) ==
    \/ selectedCuisines = <<>>
    \/ Elements(v.cuisine_types) \cap Elements(selectedCuisines) # {}

\* a is b with some elements left out
RECURSIVE IsSubsequence(_, _)
IsSubsequence(a, b) ==
    IF a = <<>> THEN TRUE
    ELSE IF b = <<>> THEN FALSE
    ELSE IF Head(a) = Head(b) THEN IsSubsequence(Tail(a), Tail(b))
    ELSE IsSubsequence(a, Tail(b))

\* the loaded vendor i is one that an active filter removes
RemovedByFilters(i) ==
    \/ showLiveOnly /\ \E st \in statusData :
          st.vendor_id = vendorsData[i].id /\ st.operational_status = "offline"
    \/ ~CuisineKept(vendorsData[i])

\* C11: once fetchVendors has stored its ranked list, the number of vendors
\* displayed is the number of vendors loaded minus the number of those an
\* active filter (live-only, cuisine) removes.
C11_CountPreserved ==
    (~searchLoading /\ vendors = ArraySort(vendorsWithLocation)) =>
        Len(filteredVendors) =
            Len(vendorsData) -
            Cardinality({i \in 1..Len(vendorsData) : RemovedByFilters(i)})

\* C12: a ranked vendor that the live-only filter does not remove is displayed
\* iff its cuisine tags intersect the selected tags or nothing is selected.
C12_CuisineFilter ==
    \A i \in 1..Len(vendors) :
        ~(showLiveOnly /\ vendors[i].operational_status = "offline") =>
            (vendors[i] \in Elements(filteredVendors) <=> CuisineKept(vendors[i]))

\* with Mexican selected, a vendor tagged [Mexican, BBQ] is displayed and a
\* vendor tagged [Italian] is not
C12_Witness ==
    /\ ~searchLoading
    /\ selectedCuisines = <<"Mexican">>
    /\ \E v \in Elements(filteredVendors) : v.cuisine_types = <<"Mexican", "BBQ">>
    /\ \E v \in Elements(vendors) \ Elements(filteredVendors) :
          v.cuisine_types = <<"Italian">>

\* C13: with live-only on, the displayed vendors are exactly the ranked
\* vendors passing the cuisine filter whose status is not offline; with it
\* off, every ranked vendor passing the cuisine filter is displayed.
C13_LiveOnlyFilter ==
    /\ showLiveOnly =>
          Elements(filteredVendors) =
             {v \in Elements(vendors) :
                 CuisineKept(v) /\ v.operational_status # "offline"}
    /\ ~showLiveOnly =>
          Elements(filteredVendors) = {v \in Elements(vendors) : CuisineKept(v)}

\* live-only is on: a closing_soon vendor is displayed, an offline one is not
C13_Witness ==
    /\ ~searchLoading
    /\ showLiveOnly
    /\ \E v \in Elements(filteredVendors) : v.operational_status = "closing_soon"
    /\ \E v \in Elements(vendors) \ Elements(filteredVendors) :
          v.operational_status = "offline" /\ CuisineKept(v)

\* C14: a toggle of a filter leaves the ranked list unchanged; the displayed
\* list is always the ranked list with some vendors left out; with both
\* filters cleared it is the ranked list.
C14_FilterNonDestructive ==
    [][/\ (toggleCuisine \/ setShowLiveOnly) => vendors' = vendors
       /\ IsSubsequence(filteredVendors, vendors)'
       /\ (~showLiveOnly' /\ selectedCuisines' = <<>>) =>
             filteredVendors' = vendors']_vars

\* both filters are on and the middle one of three ranked vendors is left out
C14_Witness ==
    /\ ~searchLoading
    /\ showLiveOnly
    /\ selectedCuisines # <<>>
    /\ Len(vendors) = 3
    /\ filteredVendors = <<vendors[1], vendors[3]>>

\* C15: when fetchVendors has stored a list, every loaded vendor that has a
\* status row is in it exactly once, with a distance iff its status has a
\* current location whose row could be read; and no loaded vendor gives an
\* empty list.
C15_RankingTotal ==
    /\ (~searchLoading /\ vendors # <<>>) =>
          \A st \in statusData :
             (\E i \in 1..Len(vendorsData) : vendorsData[i].id = st.vendor_id) =>
                /\ Cardinality({j \in 1..Len(vendors) :
                                   vendors[j].id = st.vendor_id}) = 1
                /\ \A j \in 1..Len(vendors) :
                      vendors[j].id = st.vendor_id =>
                         (IsNull(vendors[j].distance_miles) <=>
                             \/ IsNull(st.current_location_id)
                             \/ TheValue(st.current_location_id) \in locationErrors)
    /\ vendorsData = <<>> => vendors = <<>>

\* a vendor without a current location and a vendor whose location row could
\* not be read are both in the stored list, next to one with a distance
C15_Witness ==
    /\ ~searchLoading
    /\ Len(vendors) = 3
    /\ \E st \in statusData :
          /\ IsNull(st.current_location_id)
          /\ \E j \in 1..3 : vendors[j].id = st.vendor_id
    /\ \E st \in statusData :
          /\ ~IsNull(st.current_location_id)
          /\ TheValue(st.current_location_id) \in locationErrors
          /\ \E j \in 1..3 : vendors[j].id = st.vendor_id
    /\ \E j \in 1..3 : ~IsNull(vendors[j].distance_miles)

\* ------------------------------------------------ error surfacing: claim
\* what the results area of the search page renders
SearchView ==
    IF searchLoading THEN "loading"
    ELSE IF Len(filteredVendors) = 0 THEN "empty"
    ELSE "list"

\* C16: every error a collaborator returns gives a user-visible error
\* outcome: a failed status read, sensor read or store write of GoLiveButton
\* is alerted, and after a failed query of fetchVendors the search page shows
\* an error, not the loading text, the empty-list text or a list.
C16_ErrorsSurfaced ==
    [][/\ \A s \in Sessions :
             (\/ FetchStatusFails(s)
              \/ GeolocationError(s)
              \/ LocationInsertFails(s)
              \/ GoLiveUpdateFails(s)
              \/ UpdateStatusFails(s)) => lastAlert'[s] # ""
       /\ (fetchVendors /\ vendors' = vendors /\
           ArraySort(vendorsWithLocation) # vendors) =>
              SearchView' = "error"]_vars

\* ---------------------------------------------------------- LocationSearch
\* the session whose dashboard page renders the modelled instances, each as
\* <LocationSearch onLocationSelect={setSelectedLocation} />
Host == 1

\* what autocomplete.getPlace() can return: a suggestion with its geometry
\* and address components, one without address components, and the place of
\* a text that matched no suggestion (no geometry)
PlaceResults ==
    {[formatted_address |-> "1 Main St",
      geometry |-> Some([lat |-> 40, lng |-> -85]),
      address_components |->
        <<[types |-> {"locality", "political"},
           long_name |-> "Indianapolis", short_name |-> "Indianapolis"],
          [types |-> {"administrative_area_level_1", "political"},
           long_name |-> "Indiana", short_name |-> "IN"],
          [types |-> {"postal_code"},
           long_name |-> "46204", short_name |-> "46204"]>>],
     [formatted_address |-> "2 Oak Ave",
      geometry |-> Some([lat |-> 41, lng |-> -86]),
      address_components |-> <<>>],
     [formatted_address |-> "",
      geometry |-> None,
      address_components |-> <<>>]}

\* the forEach over place.address_components: the name (long or short) of
\* the last component of the type, '' if there is none
ComponentName(components, type, name) ==
    LET matching == {n \in 1..Len(components) : type \in components[n].types}
    IN IF matching = {} THEN ""
       ELSE components[CHOOSE n \in matching : \A m \in matching : m <= n][name]

\* the LocationResult the place_changed listener builds from a place that
\* has a geometry
LocationResult(place) ==
    [address |-> place.formatted_address,
     latitude |-> TheValue(place.geometry).lat,
     longitude |-> TheValue(place.geometry).lng,
     city |-> ComponentName(place.address_components, "locality", "long_name"),
     state |-> ComponentName(place.address_components,
                             "administrative_area_level_1", "short_name"),
     zip |-> ComponentName(place.address_components, "postal_code", "long_name")]

\* how many of the queued callbacks are instance i's
QueuedCallbacks(i) ==
    Cardinality({n \in 1..Len(scriptCallbacks) : scriptCallbacks[n] = i})

\* setIsReady(true); initAutocomplete() run for each instance of called, with
\* window.google defined: an instance that is rendered (inputRef.current is
\* set) becomes ready and gets its Autocomplete; for one that is not,
\* setIsReady does nothing and initAutocomplete returns
MakeReady(called) ==
    /\ isReady' = [i \in Instances |->
            IF i \in called /\ instance[i] = "mounted" THEN TRUE ELSE isReady[i]]
    /\ autocompleteRef' = [i \in Instances |->
            IF i \in called /\ instance[i] = "mounted" THEN TRUE
            ELSE autocompleteRef[i]]

\* the panel of Host shows the manual entry, which renders LocationSearch
Rendering ==
    /\ Mounted(Host)
    /\ showLocationInput[Host]
    /\ useManualLocation[Host]

\* loadGoogleMaps starting a load although one is in flight
loadGoogleMaps_IgnoresLoading(i) ==
    /\ Rendering
    /\ instance[i] = "unmounted"
    /\ instance' = [instance EXCEPT ![i] = "mounted"]
    /\ IF ~apiKey
       THEN UNCHANGED <<isReady, autocompleteRef, scriptCallbacks,
                        isScriptLoading, scripts>>
       ELSE IF google
       THEN /\ isReady' = [isReady EXCEPT ![i] = TRUE]
            /\ autocompleteRef' = [autocompleteRef EXCEPT ![i] = TRUE]
            /\ UNCHANGED <<scriptCallbacks, isScriptLoading, scripts>>
       ELSE IF ~isScriptLoaded
       THEN /\ isScriptLoading' = TRUE
            /\ scripts' = Append(scripts, [owner |-> i, state |-> "loading"])
            /\ UNCHANGED <<isReady, autocompleteRef, scriptCallbacks>>
       ELSE UNCHANGED <<isReady, autocompleteRef, scriptCallbacks,
                        isScriptLoading, scripts>>
    /\ NoAlert(Host)
    /\ UNCHANGED <<storeVars, searchVars, viewVars, inflight, apiKey, google,
                   isScriptLoaded, callbackRuns>>

\* an instance is rendered and its mount effect runs: without an API key it
\* returns; otherwise loadGoogleMaps() makes the instance ready if the
\* library is there, queues a callback if the script is loading, and else
\* appends the script element
loadGoogleMaps(i) ==
    /\ Rendering
    /\ instance[i] = "unmounted"
    /\ instance' = [instance EXCEPT ![i] = "mounted"]
    /\ IF ~apiKey
       THEN UNCHANGED <<isReady, autocompleteRef, scriptCallbacks,
                        isScriptLoading, scripts>>
       ELSE IF google
       THEN /\ isReady' = [isReady EXCEPT ![i] = TRUE]
            /\ autocompleteRef' = [autocompleteRef EXCEPT ![i] = TRUE]
            /\ UNCHANGED <<scriptCallbacks, isScriptLoading, scripts>>
       ELSE IF isScriptLoading
       THEN /\ scriptCallbacks' = Append(scriptCallbacks, i)
            /\ UNCHANGED <<isReady, autocompleteRef, isScriptLoading, scripts>>
       ELSE IF ~isScriptLoaded /\ ~isScriptLoading
       THEN /\ isScriptLoading' = TRUE
            /\ scripts' = Append(scripts, [owner |-> i, state |-> "loading"])
            /\ UNCHANGED <<isReady, autocompleteRef, scriptCallbacks>>
       ELSE UNCHANGED <<isReady, autocompleteRef, scriptCallbacks,
                        isScriptLoading, scripts>>
    /\ NoAlert(Host)
    /\ UNCHANGED <<storeVars, searchVars, viewVars, inflight, apiKey, google,
                   isScriptLoaded, callbackRuns>>

\* script.onload of the k-th script element: the library is defined; the
\* instance that appended the script and then every queued callback run
\* setIsReady(true) and initAutocomplete(); the queue is emptied
ScriptOnload(k) ==
    /\ k \in 1..Len(scripts)
    /\ scripts[k].state = "loading"
    /\ scripts' = [scripts EXCEPT ![k].state = "loaded"]
    /\ google' = TRUE
    /\ isScriptLoaded' = TRUE
    /\ isScriptLoading' = FALSE
    /\ MakeReady({scripts[k].owner} \cup
                 {scriptCallbacks[n] : n \in 1..Len(scriptCallbacks)})
    /\ callbackRuns' = [i \in Instances |-> callbackRuns[i] + QueuedCallbacks(i)]
    /\ scriptCallbacks' = <<>>
    /\ NoAlert(Host)
    /\ UNCHANGED <<storeVars, searchVars, viewVars, inflight, apiKey, instance>>

\* script.onerror that also empties the queue
ScriptOnerror_ClearsQueue(k) ==
    /\ k \in 1..Len(scripts)
    /\ scripts[k].state = "loading"
    /\ scripts' = [scripts EXCEPT ![k].state = "failed"]
    /\ isScriptLoading' = FALSE
    /\ scriptCallbacks' = <<>>
    /\ NoAlert(Host)
    /\ UNCHANGED <<storeVars, searchVars, viewVars, inflight, apiKey, google,
                   isScriptLoaded, instance, isReady, autocompleteRef,
                   callbackRuns>>

\* script.onerror of the k-th script element: isScriptLoading = false, and
\* nothing else
ScriptOnerror(k) ==
    /\ k \in 1..Len(scripts)
    /\ scripts[k].state = "loading"
    /\ scripts' = [scripts EXCEPT ![k].state = "failed"]
    /\ isScriptLoading' = FALSE
    /\ NoAlert(Host)
    /\ UNCHANGED <<storeVars, searchVars, viewVars, inflight, apiKey, google,
                   isScriptLoaded, scriptCallbacks, instance, isReady,
                   autocompleteRef, callbackRuns>>

\* the page stops rendering an instance: its state and refs are discarded
Unmount(i) ==
    /\ instance[i] = "mounted"
    /\ instance' = [instance EXCEPT ![i] = "gone"]
    /\ isReady' = [isReady EXCEPT ![i] = FALSE]
    /\ autocompleteRef' = [autocompleteRef EXCEPT ![i] = FALSE]
    /\ NoAlert(Host)
    /\ UNCHANGED <<storeVars, searchVars, viewVars, inflight, apiKey, google,
                   isScriptLoaded, isScriptLoading, scriptCallbacks, scripts,
                   callbackRuns>>

\* the place_changed listener calling onLocationSelect(null) for a place
\* without a geometry
PlaceChanged_ClearsSelection(i) ==
    /\ Rendering
    /\ instance[i] = "mounted"
    /\ isReady[i]
    /\ autocompleteRef[i]
    /\ \E place \in PlaceResults :
         IF IsNull(place.geometry)
         THEN /\ alert(Host, "No details available for this location")
              /\ selectedLocation' = [selectedLocation EXCEPT ![Host] = None]
         ELSE /\ selectedLocation' =
                    [selectedLocation EXCEPT ![Host] = Some(LocationResult(place))]
              /\ NoAlert(Host)
    /\ UNCHANGED <<storeVars, searchVars, loaderVars, status, loading,
                   showLocationInput, useManualLocation, fetch, inflight>>

\* the place_changed listener of an instance whose input is enabled: a place
\* without a geometry is answered with an alert; otherwise
\* onLocationSelect(location), which is setSelectedLocation of Host
PlaceChanged(i) ==
    /\ Rendering
    /\ instance[i] = "mounted"
    /\ isReady[i]
    /\ autocompleteRef[i]
    /\ \E place \in PlaceResults :
         IF IsNull(place.geometry)
         THEN /\ alert(Host, "No details available for this location")
              /\ UNCHANGED selectedLocation
         ELSE /\ selectedLocation' =
                    [selectedLocation EXCEPT ![Host] = Some(LocationResult(place))]
              /\ NoAlert(Host)
    /\ UNCHANGED <<storeVars, searchVars, loaderVars, status, loading,
                   showLocationInput, useManualLocation, fetch, inflight>>

\* the vendor has onboarded, session Host has read the status and opened the
\* manual entry of the go-live panel; the deployment has an API key or none
LoaderInit ==
    /\ vendorRow = TRUE
    /\ vendor_status = {OnboardingStatusRow(vendorId)}
    /\ locations = <<>>
    /\ onboarding = "done"
    /\ status = [s \in Sessions |-> "offline"]
    /\ loading = [s \in Sessions |-> FALSE]
    /\ showLocationInput = [s \in Sessions |-> s = Host]
    /\ useManualLocation = [s \in Sessions |-> s = Host]
    /\ selectedLocation = [s \in Sessions |-> None]
    /\ fetch = [s \in Sessions |->
                  [phase |-> IF s = Host THEN "done" ELSE "req", data |-> None]]
    /\ inflight = [s \in Sessions |-> {}]
    /\ lastAlert = [s \in Sessions |-> ""]
    /\ SearchIdle
    /\ LoaderIdle(BOOLEAN)

LoaderNext ==
    \/ \E i \in Instances :
          \/ loadGoogleMaps(i)
          \/ Unmount(i)
          \/ PlaceChanged(i)
    \/ \E k \in 1..MaxInstances :
          \/ ScriptOnload(k)
          \/ ScriptOnerror(k)

SpecLoader == LoaderInit /\ [][LoaderNext]_vars

\* -------------------------------------------------- LocationSearch: claims
\* the instances that appended a script element
ScriptOwners == {scripts[k].owner : k \in 1..Len(scripts)}

\* C27: isScriptLoaded and isScriptLoading are never both true, at most one
\* script element is loading at any time, and no script element is appended
\* after one has loaded (a loaded script element is the last one appended).
C27_SingleLoader ==
    /\ ~(isScriptLoaded /\ isScriptLoading)
    /\ Cardinality({k \in 1..Len(scripts) : scripts[k].state = "loading"}) <= 1
    /\ \A k \in 1..Len(scripts) :
          scripts[k].state = "loaded" => k = Len(scripts)

\* a first load failed, a second one succeeded, and an instance that mounted
\* after it is ready without a script of its own or a queued callback
C27_Witness ==
    /\ Len(scripts) = 2
    /\ scripts[1].state = "failed"
    /\ scripts[2].state = "loaded"
    /\ \E i \in Instances \ ScriptOwners :
          /\ instance[i] = "mounted"
          /\ isReady[i]
          /\ callbackRuns[i] = 0

\* C28: no instance's queued callback runs more than once; the step in which
\* a load succeeds runs every queued callback, leaves the queue empty and
\* makes every queued instance that is still rendered ready; and a callback
\* leaves the queue only by being run, so that the callbacks queued during a
\* load that fails stay queued for the next load that succeeds.
C28_QueuedCallbacksRunOnce ==
    [][/\ \A i \in Instances : callbackRuns'[i] <= 1
       /\ (isScriptLoaded' /\ ~isScriptLoaded) =>
             /\ scriptCallbacks' = <<>>
             /\ \A i \in Elements(scriptCallbacks) :
                   /\ callbackRuns'[i] = 1
                   /\ instance[i] = "mounted" => isReady'[i]
       /\ \A i \in Elements(scriptCallbacks) :
             \/ i \in Elements(scriptCallbacks')
             \/ callbackRuns'[i] = callbackRuns[i] + 1]_vars

\* a first load failed and a second one succeeded; an instance that was
\* queued is ready and its callback has run once, and the queue is empty
C28_Witness ==
    /\ Len(scripts) = 2
    /\ scripts[1].state = "failed"
    /\ scripts[2].state = "loaded"
    /\ scriptCallbacks = <<>>
    /\ \E i \in Instances \ ScriptOwners :
          /\ instance[i] = "mounted"
          /\ isReady[i]
          /\ callbackRuns[i] = 1

\* C29: a step that shows 'No details available for this location' leaves
\* the session's selected location as it was, and the selected location
\* changes only to the LocationResult of a place that has a geometry, with
\* that geometry's latitude and longitude.
C29_NoGeometryNoSelection ==
    [][\A s \in Sessions :
          /\ lastAlert'[s] = "No details available for this location" =>
                selectedLocation'[s] = selectedLocation[s]
          /\ selectedLocation'[s] # selectedLocation[s] =>
                \E place \in PlaceResults :
                   /\ ~IsNull(place.geometry)
                   /\ selectedLocation'[s] = Some(LocationResult(place))
                   /\ TheValue(selectedLocation'[s]).latitude =
                         TheValue(place.geometry).lat
                   /\ TheValue(selectedLocation'[s]).longitude =
                         TheValue(place.geometry).lng]_vars

\* a place without a geometry was answered with the alert while an earlier
\* selection is still in place
C29_Witness ==
    /\ lastAlert[Host] = "No details available for this location"
    /\ ~IsNull(selectedLocation[Host])

====
